---- MODULE Spec2Model ----
(***************************************************************************)
(* wordpirate: a WordPress -> static-site migration script.                *)
(*                                                                         *)
(* One run is the loop of __main__ (src/wordpirate.py:143-146):            *)
(*     for post in e.get_posts(): c.add_post(post)                         *)
(* get_posts is a lazy map of enhance_post over the lazy generator         *)
(* pageWhileList, so requests, normalisation and writes interleave.  The   *)
(* model has one action per observable step of that loop: an HTTP request  *)
(* (posts, categories, tags), the pull of one raw post, the resolution of  *)
(* its category / tag ids, the file write.  A second run of the script     *)
(* against the same output directory (a new process, hence a new           *)
(* Extractor with empty caches) is the action Rerun.                       *)
(***************************************************************************)
EXTENDS Integers, Sequences, FiniteSets, TLC

(***************************************************************************)
(* Bounds of the model.                                                    *)
(***************************************************************************)
\* Longest upstream listing of posts.
MaxPosts == 3
\* Largest page size the upstream server cuts its listings into.
MaxPerPage == 2
\* Highest page number the model lets a fetch request: an endpoint that
\* never ends is followed up to here.  Every ending endpoint of the model
\* ends before it (its listing has at most MaxPosts one-element pages, then
\* at most two more pages).
MaxPage == MaxPosts + 3

\* Default page size of pageWhileList's base_params.
PER_PAGE == 100

(***************************************************************************)
(* Helpers on sequences.                                                   *)
(***************************************************************************)
Range(s) == {s[i] : i \in DOMAIN s}

Min(a, b) == IF a < b THEN a ELSE b

\* s without its k-th element.
RemoveAt(s, k) == SubSeq(s, 1, k - 1) \o SubSeq(s, k + 1, Len(s))

RECURSIVE Concat(_)
\* The concatenation of a sequence of sequences.
Concat(ss) == IF ss = <<>> THEN <<>> ELSE Head(ss) \o Concat(Tail(ss))

\* Sequences over S of length at most n without a repeated element.
DistinctSeqs(S, n) ==
    UNION {{s \in [1..k -> S] : \A i, j \in 1..k : i # j => s[i] # s[j]} : k \in 0..n}

(***************************************************************************)
(* The upstream WordPress site (the environment behind requests.get).      *)
(* A record of the REST API is identified by its numeric id.               *)
(***************************************************************************)
POST_IDS == 1..4

\* The raw post record the posts endpoint serves for an id: the fields
\* enhance_post reads.  Posts 1 and 2 share a slug; post 2 repeats a
\* category id; post 3 references nothing; post 4 references category 3
\* and tag 2, which some vocabularies lack.
RawPost(id) ==
    CASE id = 1 -> [id |-> 1, date_gmt |-> "2020-01-02T03:04:05",
                    modified_gmt |-> "2020-01-03T00:00:00",
                    title |-> [rendered |-> "A &amp; B"], slug |-> "hello-world",
                    categories |-> <<1>>, tags |-> <<>>,
                    content |-> [rendered |-> "<p>1 &lt; 2</p>"],
                    excerpt |-> [rendered |-> "first"]]
      [] id = 2 -> [id |-> 2, date_gmt |-> "2020-02-02T00:00:00",
                    modified_gmt |-> "2020-02-02T00:00:00",
                    title |-> [rendered |-> "Second"], slug |-> "hello-world",
                    categories |-> <<2, 1, 2>>, tags |-> <<1>>,
                    content |-> [rendered |-> "second body"],
                    excerpt |-> [rendered |-> "second"]]
      [] id = 3 -> [id |-> 3, date_gmt |-> "2020-03-03T00:00:00",
                    modified_gmt |-> "2020-03-04T00:00:00",
                    title |-> [rendered |-> "News"], slug |-> "news",
                    categories |-> <<>>, tags |-> <<>>,
                    content |-> [rendered |-> "&quot;news&quot;"],
                    excerpt |-> [rendered |-> "third"]]
      [] id = 4 -> [id |-> 4, date_gmt |-> "2020-04-04T00:00:00",
                    modified_gmt |-> "2020-04-04T00:00:00",
                    title |-> [rendered |-> "Orphan"], slug |-> "orphan",
                    categories |-> <<3>>, tags |-> <<2, 2>>,
                    content |-> [rendered |-> "fourth body"],
                    excerpt |-> [rendered |-> "fourth"]]

\* The record of the idle loop: no post pulled yet.
NoData ==
    [id |-> 0, date_gmt |-> "", modified_gmt |-> "", title |-> [rendered |-> ""],
     slug |-> "", categories |-> <<>>, tags |-> <<>>,
     content |-> [rendered |-> ""], excerpt |-> [rendered |-> ""]]

\* The category record served for an id.
CategoryRecord(id) ==
    [id |-> id,
     name |-> CASE id = 1 -> "News" [] id = 2 -> "Events" [] OTHER -> "General"]

\* The tag record served for an id.
TagRecord(id) ==
    [id |-> id, name |-> CASE id = 1 -> "python" [] OTHER -> "wordpress"]

\* The record an endpoint serves for an id.
Record(ep, id) ==
    CASE ep = "posts" -> RawPost(id)
      [] ep = "categories" -> CategoryRecord(id)
      [] ep = "tags" -> TagRecord(id)

(***************************************************************************)
(* A parsed response body (.json()): a list of records, here of their ids, *)
(* or something that is not a list (WordPress's error object).             *)
(***************************************************************************)
ListOf(items) == [isList |-> TRUE, items |-> items]

EmptyList == ListOf(<<>>)

ErrorObject == [isList |-> FALSE, items |-> <<>>]

\* A listing cut into pages of n elements.
Chunk(l, n) ==
    [k \in 1..((Len(l) + n - 1) \div n) |->
        SubSeq(l, (k - 1) * n + 1, Min(k * n, Len(l)))]

\* The pages a site serves for one endpoint: its listing in pages of
\* per_page elements, then the pages of `after`.
Pages(site) ==
    LET c == Chunk(site.listing, site.per_page)
    IN  [k \in 1..Len(c) |-> ListOf(c[k])] \o site.after

\* The parsed body the endpoint answers a request for page p with: pages
\* beyond the last one of Pages are all answered with `rest`.
Resp(site, p) ==
    LET pages == Pages(site)
    IN  IF p <= Len(pages) THEN pages[p] ELSE site.rest

\* How an endpoint behaves past its listing.
Tails(junk) ==
    { [after |-> <<EmptyList>>, rest |-> EmptyList],
      [after |-> <<ErrorObject>>, rest |-> ListOf(junk)],
      [after |-> <<EmptyList>>, rest |-> ListOf(junk)],
      [after |-> <<>>, rest |-> ErrorObject],
      [after |-> <<>>, rest |-> ListOf(junk)] }

Site(listing, n, tail) ==
    [listing |-> listing, per_page |-> n, after |-> tail.after, rest |-> tail.rest]

\* The posts endpoints of the model.
PostSites ==
    {Site(l, n, t) : l \in DistinctSeqs(POST_IDS, MaxPosts), n \in 1..MaxPerPage,
                     t \in Tails(<<3>>)}

\* The category vocabularies of the model: complete, lacking id 3, empty,
\* and one that never ends.
CategorySites ==
    { Site(<<1, 2, 3>>, 2, [after |-> <<EmptyList>>, rest |-> EmptyList]),
      Site(<<1, 2>>, 1, [after |-> <<ErrorObject>>, rest |-> ListOf(<<3>>)]),
      Site(<<>>, 1, [after |-> <<>>, rest |-> ErrorObject]),
      Site(<<2, 1>>, 2, [after |-> <<>>, rest |-> ListOf(<<1>>)]) }

\* The tag vocabularies of the model: complete, lacking id 2, never ending.
TagSites ==
    { Site(<<1, 2>>, 2, [after |-> <<ErrorObject>>, rest |-> ListOf(<<2>>)]),
      Site(<<1>>, 1, [after |-> <<EmptyList>>, rest |-> EmptyList]),
      Site(<<1, 2>>, 1, [after |-> <<>>, rest |-> ListOf(<<2>>)]) }

(***************************************************************************)
(* Extractor.get and Extractor.pageWhileList.                              *)
(***************************************************************************)
BASE_URL == "https://blog.example"

BASE_HEADERS ==
    [UserAgent |-> "Mozilla/5.0 (X11; Linux x86_64; rv:83.0) Gecko/20100101 Firefox/83.0"]

\* The default base_params of pageWhileList's signature.
BASE_PARAMS == [per_page |-> PER_PAGE, order |-> "asc", orderby |-> "id"]

Url(ep) == BASE_URL \o "/wp-json/wp/v2/" \o ep

\* The request Extractor.get issues: the url, the caller's params, and the
\* default headers (no caller passes headers).
Get(url, params) == [url |-> url, params |-> params, headers |-> BASE_HEADERS]

\* The query parameters pageWhileList passes to get: dict(page=page).
PageParams(page) == [page |-> page]

\* Faulty variant of Continues: only a body that is not a list ends the
\* loop, an empty page does not.
Continues_IgnoresEmpty(items) == items.isList

\* The loop condition of pageWhileList on a parsed body.
Continues(items) == items.isList /\ Len(items.items) > 0

\* A generator of pageWhileList that has not run yet.
NewGen == [started |-> FALSE, page |-> 1, items |-> <<>>, finished |-> FALSE]

\* Faulty variant of PageToRequest: the page number is advanced before the
\* first request too, so page 1 is never requested.
PageToRequest_SkipsFirst(g) == g.page + 1

\* The page the generator requests when it runs on: page = 1 at its start,
\* page += 1 after the elements of a page have been yielded.
PageToRequest(g) == IF g.started THEN g.page + 1 ELSE g.page

\* s back to front.
Reverse(s) == [i \in 1..Len(s) |-> s[Len(s) + 1 - i]]

\* Faulty variant of AfterResponse: the elements of a page are yielded
\* last to first.
AfterResponse_Reversed(g, items) ==
    [started |-> TRUE, page |-> IF g.started THEN g.page + 1 ELSE g.page,
     items |-> IF items.isList /\ Len(items.items) > 0
               THEN Reverse(items.items) ELSE <<>>,
     finished |-> ~(items.isList /\ Len(items.items) > 0)]

\* The generator after the body `items` came back for PageToRequest.
AfterResponse(g, items) ==
    [started |-> TRUE, page |-> PageToRequest(g),
     items |-> IF Continues(items) THEN items.items ELSE <<>>,
     finished |-> ~Continues(items)]

(***************************************************************************)
(* Post, its rendering, and the pure parts of enhance_post.                *)
(***************************************************************************)
\* html.unescape on the texts of the model.
Unescape(s) ==
    CASE s = "A &amp; B" -> "A & B"
      [] s = "<p>1 &lt; 2</p>" -> "<p>1 < 2</p>"
      [] s = "&quot;news&quot;" -> "\"news\""
      [] OTHER -> s

\* pytz.UTC.localize(datetime.fromisoformat(s)).isoformat(): a naive
\* timestamp tagged UTC renders with the offset appended.
UtcIso(s) == s \o "+00:00"

\* Post.front_matter: the dict json.dumps serialises, keys in this order.
FrontMatter(p) ==
    [title |-> p.title, categories |-> p.categories, tags |-> p.tags,
     aliases |-> p.aliases, author |-> p.author, date |-> p.published,
     lastmod |-> p.modified, slug |-> p.slug, summary |-> p.summary]

\* Post.md: the front matter, a blank line, the content.
Md(p) == <<FrontMatter(p), "\n\n", p.content>>

\* A Post whose fields are not evaluated yet.
NoPost ==
    [published |-> "", modified |-> "", title |-> "", slug |-> "", content |-> "",
     summary |-> "", aliases |-> <<>>, categories |-> <<>>, tags |-> <<>>,
     author |-> ""]

\* A dict without keys.
EmptyDict == [i \in {} |-> CategoryRecord(i)]

\* The dict comprehension {x["id"]: x for x in ...} extended by one page.
DictUpdate(ep, m, items) ==
    [i \in DOMAIN m \cup {Record(ep, x).id : x \in Range(items)} |->
        IF \E x \in Range(items) : Record(ep, x).id = i
        THEN Record(ep, i) ELSE m[i]]

\* self.categories[i] / self.tags[i] raises KeyError for one of the ids.
MissingKey(m, ids) == \E k \in DOMAIN ids : ids[k] \notin DOMAIN m

RECURSIVE FirstOccurrences(_)
\* ids without the repetitions of an element.
FirstOccurrences(ids) ==
    IF ids = <<>> THEN <<>>
    ELSE LET front == FirstOccurrences(SubSeq(ids, 1, Len(ids) - 1))
         IN  IF ids[Len(ids)] \in Range(front) THEN front
             ELSE Append(front, ids[Len(ids)])

\* Faulty variant of ResolveNames: every id is resolved once, a repeated
\* id is dropped.
ResolveNames_Unique(m, ids) ==
    [k \in DOMAIN FirstOccurrences(ids) |-> m[FirstOccurrences(ids)[k]].name]

\* list(map(lambda i: cache[i]["name"], ids)).
ResolveNames(m, ids) == [k \in DOMAIN ids |-> m[ids[k]].name]

(***************************************************************************)
(* Constructor.                                                            *)
(***************************************************************************)
BASE_PATH == "out"

\* Constructor.posts_directory.
PostsDirectory == BASE_PATH \o "/content/posts"

\* The directory of a post and the file written in it.
PostPath(slug) == PostsDirectory \o "/" \o slug

IndexPath(slug) == PostPath(slug) \o "/index.md"

\* Faulty variant of WriteText: a file that exists is left as it is.
WriteText_KeepsExisting(fs, path, text) ==
    [f \in DOMAIN fs \cup {path} |-> IF f \in DOMAIN fs THEN fs[f] ELSE text]

\* Faulty variant of WriteText: the text is appended to a file that exists.
WriteText_Appends(fs, path, text) ==
    [f \in DOMAIN fs \cup {path} |->
        IF f # path THEN fs[f]
        ELSE IF f \in DOMAIN fs THEN fs[f] \o text ELSE text]

\* Path.write_text: the file is created or truncated, then written.
WriteText(fs, path, text) ==
    [f \in DOMAIN fs \cup {path} |-> IF f = path THEN text ELSE fs[f]]

\* A file of an earlier migration found in the output directory.
StalePost == [NoPost EXCEPT !.title = "stale", !.slug = "hello-world"]

\* An output directory without files.
NoFiles == [f \in {} |-> Md(NoPost)]

(***************************************************************************)
(* State.                                                                  *)
(***************************************************************************)
VARIABLES
    wp,        \* the upstream site: endpoint -> what it serves
    requests,  \* the HTTP requests of this run, in order
    gen,       \* the pageWhileList generator of get_posts
    cache,     \* Extractor.categories / .tags: the fetch and the memoised dict
    pc,        \* where the loop of __main__ is
    data,      \* the raw post being normalised
    post,      \* the Post being built
    files,     \* the output directory: path -> text
    dirs,      \* the directories of the output directory
    run,       \* 1: the first run of the script, 2: the second
    yielded,   \* history: endpoint -> the elements its fetch yielded this run
    written,   \* history: the writes of add_post this run: post id, path, text
    looked,    \* history: endpoint -> an id lookup against its cache happened
    fresh,     \* history: the files this run writes into an empty directory
    first,     \* history: how the first run ended, and the files it left
    deleted    \* history: the id of the post deleted upstream before run 2, or 0

vars == <<wp, requests, gen, cache, pc, data, post, files, dirs, run,
          yielded, written, looked, fresh, first, deleted>>

\* A cached_property not computed yet.
NewCache == [fetch |-> NewGen, dict |-> EmptyDict, populated |-> FALSE]

NewCaches == [categories |-> NewCache, tags |-> NewCache]

NothingYielded == [posts |-> <<>>, categories |-> <<>>, tags |-> <<>>]

Init ==
    /\ wp \in [posts : PostSites, categories : CategorySites, tags : TagSites]
    /\ requests = <<>>
    /\ gen = NewGen
    /\ cache = NewCaches
    /\ pc = "next"
    /\ data = NoData
    /\ post = NoPost
    /\ \/ files = NoFiles /\ dirs = {}
       \/ /\ files = WriteText(NoFiles, IndexPath("hello-world"), Md(StalePost))
          /\ dirs = {PostsDirectory, PostPath("hello-world")}
    /\ run = 1
    /\ yielded = NothingYielded
    /\ written = <<>>
    /\ looked = [categories |-> FALSE, tags |-> FALSE]
    /\ fresh = NoFiles
    /\ first = [pc |-> "", files |-> NoFiles, dirs |-> {}]
    /\ deleted = 0

(***************************************************************************)
(* The steps of one run.                                                   *)
(***************************************************************************)
\* The request pageWhileList issues for an endpoint when generator g runs on.
PageRequest(ep, g) == Get(Url(ep), PageParams(PageToRequest(g)))

\* Faulty variant of Touches: the cached property is read for every post,
\* with or without ids.
Touches_Always(ids) == TRUE

\* map(lambda i: cache[i]..., ids) reads the cached property only when it
\* calls the lambda, that is when ids has an element.
Touches(ids) == Len(ids) > 0

\* Faulty variant of CacheReady: the dict is used as soon as its first page
\* is in.
CacheReady_AfterFirstPage(c) == c.fetch.started

\* functools.cached_property: the value is there once the getter returned.
CacheReady(c) == c.populated

\* The main loop asks get_posts for the next post and the page in hand is
\* used up (or none was requested yet): pageWhileList requests a page of
\* posts.  A body that is no non-empty list ends the generator and the loop.
FetchPostsPage ==
    /\ pc = "next"
    /\ gen.items = <<>>
    /\ PageToRequest(gen) <= MaxPage
    /\ LET body == Resp(wp.posts, PageToRequest(gen))
       IN  /\ requests' = Append(requests, PageRequest("posts", gen))
           /\ gen' = AfterResponse(gen, body)
           /\ pc' = IF Continues(body) THEN "next" ELSE "done"
    /\ UNCHANGED <<wp, cache, data, post, files, dirs, run, yielded, written,
                   looked, fresh, first, deleted>>

\* yield from items: the next raw post of the page in hand goes to
\* enhance_post.
PullPost ==
    /\ pc = "next"
    /\ gen.items # <<>>
    /\ data' = RawPost(Head(gen.items))
    /\ gen' = [gen EXCEPT !.items = Tail(@)]
    /\ yielded' = [yielded EXCEPT !.posts = Append(@, Head(gen.items))]
    /\ post' = NoPost
    /\ pc' = "enhance"
    /\ UNCHANGED <<wp, requests, cache, files, dirs, run, written, looked,
                   fresh, first, deleted>>

\* enhance_post, the keyword arguments before categories: published,
\* modified, title, slug, aliases.
EnhancePost ==
    /\ pc = "enhance"
    /\ post' = [NoPost EXCEPT !.published = UtcIso(data.date_gmt),
                              !.modified = UtcIso(data.modified_gmt),
                              !.title = Unescape(data.title.rendered),
                              !.slug = data.slug,
                              !.aliases = <<>>]
    /\ pc' = "categories"
    /\ UNCHANGED <<wp, requests, gen, cache, data, files, dirs, run, yielded,
                   written, looked, fresh, first, deleted>>

\* The getter of the cached property categories / tags, one page of its
\* dict comprehension over pageWhileList: the request, and the elements of
\* the page put into the dict.  The body that ends the generator completes
\* the dict, which is then memoised.
FetchVocabularyPage(ep) ==
    /\ pc = ep
    /\ Touches(data[ep])
    /\ ~CacheReady(cache[ep])
    /\ PageToRequest(cache[ep].fetch) <= MaxPage
    /\ LET g == cache[ep].fetch
           body == Resp(wp[ep], PageToRequest(g))
           after == AfterResponse(g, body)
       IN  /\ requests' = Append(requests, PageRequest(ep, g))
           /\ cache' = [cache EXCEPT ![ep] =
                  [fetch |-> [after EXCEPT !.items = <<>>],
                   dict |-> DictUpdate(ep, @.dict, after.items),
                   populated |-> after.finished]]
           /\ yielded' = [yielded EXCEPT ![ep] = @ \o after.items]
    /\ UNCHANGED <<wp, gen, pc, data, post, files, dirs, run, written, looked,
                   fresh, first, deleted>>

\* Faulty variant of Uncaught: the loop catches the exception and goes on
\* with the next post.
CaughtAndSkipped == "next"

\* Where an exception raised in the loop of __main__ leaves the run: nothing
\* catches it, the process ends.
Uncaught == "aborted"

\* The stage of enhance_post after ep's names are resolved: tags follow
\* categories; after tags come content and summary and the Post is built.
StageAfter(ep) == IF ep = "categories" THEN "tags" ELSE "add_post"

\* list(map(lambda i: cache[i]["name"], data[ep])): every id is looked up
\* in the memoised dict; an absent id raises KeyError, which nothing
\* catches.
ResolveIds(ep) ==
    /\ pc = ep
    /\ ~Touches(data[ep]) \/ CacheReady(cache[ep])
    /\ looked' = [looked EXCEPT ![ep] = @ \/ Touches(data[ep])]
    /\ IF MissingKey(cache[ep].dict, data[ep])
       THEN /\ pc' = Uncaught
            /\ post' = post
       ELSE /\ pc' = StageAfter(ep)
            /\ post' = IF ep = "categories"
                       THEN [post EXCEPT !.categories =
                                ResolveNames(cache[ep].dict, data[ep])]
                       ELSE [post EXCEPT !.tags =
                                ResolveNames(cache[ep].dict, data[ep]),
                                         !.content = Unescape(data.content.rendered),
                                         !.summary = Unescape(data.excerpt.rendered)]
    /\ UNCHANGED <<wp, requests, gen, cache, data, files, dirs, run, yielded,
                   written, fresh, first, deleted>>

\* Constructor.add_post: the directories are made if absent, the file is
\* written.
AddPost ==
    /\ pc = "add_post"
    /\ dirs' = dirs \cup {PostsDirectory, PostPath(post.slug)}
    /\ files' = WriteText(files, IndexPath(post.slug), Md(post))
    /\ fresh' = WriteText(fresh, IndexPath(post.slug), Md(post))
    /\ written' = Append(written, [id |-> data.id, path |-> IndexPath(post.slug),
                                    text |-> Md(post)])
    /\ pc' = "next"
    /\ UNCHANGED <<wp, requests, gen, cache, data, post, run, yielded, looked,
                   first, deleted>>

\* The script is run a second time with the same arguments, after the
\* first run ended (normally or by an uncaught exception): a new Extractor
\* and Constructor, the output directory as the first run left it.
\* Upstream is unchanged or one post was deleted in between.
Rerun ==
    /\ pc \in {"done", "aborted"}
    /\ run = 1
    /\ \E k \in 0..Len(wp.posts.listing) :
          /\ wp' = IF k = 0 THEN wp
                   ELSE [wp EXCEPT !.posts.listing = RemoveAt(@, k)]
          /\ deleted' = IF k = 0 THEN 0 ELSE wp.posts.listing[k]
    /\ first' = [pc |-> pc, files |-> files, dirs |-> dirs]
    /\ run' = 2
    /\ requests' = <<>>
    /\ gen' = NewGen
    /\ cache' = NewCaches
    /\ pc' = "next"
    /\ data' = NoData
    /\ post' = NoPost
    /\ yielded' = NothingYielded
    /\ written' = <<>>
    /\ looked' = [categories |-> FALSE, tags |-> FALSE]
    /\ fresh' = NoFiles
    /\ UNCHANGED <<files, dirs>>

Next ==
    \/ FetchPostsPage
    \/ PullPost
    \/ EnhancePost
    \/ FetchVocabularyPage("categories")
    \/ FetchVocabularyPage("tags")
    \/ ResolveIds("categories")
    \/ ResolveIds("tags")
    \/ AddPost
    \/ Rerun

Spec == Init /\ [][Next]_vars

\* The runs against an upstream of at most one post, into an empty output
\* directory: every page loop of the script (posts, categories, tags)
\* against every kind of endpoint, ending and endless.
FetchInit ==
    /\ Init
    /\ Len(wp.posts.listing) <= 1
    /\ files = NoFiles

\* Nothing suspends the script (it is single-threaded and synchronous, and
\* every request is answered): whatever step it can take, it takes.
FetchSpec == FetchInit /\ [][Next]_vars /\ WF_vars(Next)

(***************************************************************************)
(* Vocabulary of the properties: what the upstream site serves, stated on  *)
(* the site alone.                                                         *)
(***************************************************************************)
ENDPOINTS == {"posts", "categories", "tags"}

VOCABULARIES == {"categories", "tags"}

\* A body that is empty or not a list.
EndsListing(body) == ~body.isList \/ body.items = <<>>

\* The bodies the site answers requests for pages 1, 2, ... with; every
\* page after the last of these is answered like the last.
Bodies(site) == Pages(site) \o <<site.rest>>

\* The site answers some page with a body that is empty or not a list.
Ending(site) ==
    LET bodies == Bodies(site)
    IN  \E p \in DOMAIN bodies : EndsListing(bodies[p])

\* The first such page: N + 1 after N pages that are non-empty lists.
EndPage(site) ==
    LET bodies == Bodies(site)
    IN  CHOOSE p \in DOMAIN bodies :
            /\ EndsListing(bodies[p])
            /\ \A q \in 1..(p - 1) : ~EndsListing(bodies[q])

\* The elements of pages 1..n, in page order and element order.
ElementsUpTo(site, n) ==
    LET bodies == Bodies(site)
    IN  Concat([k \in 1..n |-> bodies[Min(k, Len(bodies))].items])

\* The page numbers requested from an endpoint this run, in order.
PagesRequested(ep) ==
    LET rs == SelectSeq(requests, LAMBDA r : r.url = Url(ep))
    IN  [i \in 1..Len(rs) |-> rs[i].params.page]

\* The sequence 1, 2, ..., n.
UpTo(n) == [i \in 1..n |-> i]

\* The fetch of an endpoint ran to its end: the loop over get_posts ended
\* normally, or the cached property is computed.
Fetched(ep) == IF ep = "posts" THEN pc = "done" ELSE cache[ep].populated

(***************************************************************************)
(* C1: when a site serves N >= 0 non-empty list pages and then a page that *)
(* is empty or not a list, a fetch of pageWhileList that ran to its end    *)
(* has yielded exactly the elements of pages 1..N in page and element      *)
(* order and has requested pages 1, 2, ..., N+1, each once, in that order, *)
(* and no later page (whatever the site would answer for them).            *)
(***************************************************************************)
C1_FetchYieldsAllPagesInOrder ==
    \A ep \in ENDPOINTS :
        Fetched(ep) =>
            /\ Ending(wp[ep])
            /\ LET n == EndPage(wp[ep]) - 1
               IN  /\ yielded[ep] = ElementsUpTo(wp[ep], n)
                   /\ PagesRequested(ep) = UpTo(n + 1)

\* A finished fetch of three pages of posts from a site that would answer
\* the page after the ending one with a non-empty list again.
C1_Witness ==
    /\ pc = "done"
    /\ EndPage(wp.posts) = 3
    /\ ~EndsListing(Resp(wp.posts, 4))
    /\ Len(yielded.posts) = 3

(***************************************************************************)
(* C2: every request the paginated fetcher issues carries per_page=100,    *)
(* order=asc and orderby=id together with page=N; none is sent with the    *)
(* page parameter alone.                                                   *)
(***************************************************************************)
C2_RequestsCarryBaseParams ==
    \A i \in DOMAIN requests :
        LET params == requests[i].params
        IN  /\ {"page", "per_page", "order", "orderby"} \subseteq DOMAIN params
            /\ params.per_page = BASE_PARAMS.per_page
            /\ params.order = BASE_PARAMS.order
            /\ params.orderby = BASE_PARAMS.orderby

(***************************************************************************)
(* C3: within one run the category vocabulary is fetched at most once and  *)
(* the tag vocabulary at most once (no page of either endpoint is          *)
(* requested twice); an id is looked up in a cache only after the cache is *)
(* populated to completion, that is after the page ending its listing has  *)
(* been received; and once a cache is populated no further request goes to *)
(* its endpoint in that run.                                               *)
(***************************************************************************)
C3_FetchedOnce ==
    \A ep \in VOCABULARIES :
        /\ PagesRequested(ep) = UpTo(Len(PagesRequested(ep)))
        /\ looked[ep] =>
              /\ cache[ep].populated
              /\ PagesRequested(ep) # <<>>
              /\ EndsListing(Resp(wp[ep], PagesRequested(ep)[Len(PagesRequested(ep))]))

C3_NoRefetch ==
    \A ep \in VOCABULARIES :
        (cache[ep].populated /\ run' = run) =>
            /\ cache'[ep] = cache[ep]
            /\ PagesRequested(ep)' = PagesRequested(ep)

\* C3: each vocabulary is fetched at most once per run, completely, before
\* the first lookup against it, and never requested again afterwards.
C3_CachesPopulatedOnceBeforeLookup == []C3_FetchedOnce /\ [][C3_NoRefetch]_vars

\* A finished run that normalised two posts referencing categories, with a
\* category vocabulary of several pages, and resolved tags as well.
C3_Witness ==
    /\ pc = "done"
    /\ looked.categories /\ looked.tags
    /\ Len(PagesRequested("categories")) >= 2
    /\ Cardinality({i \in DOMAIN yielded.posts :
                       RawPost(yielded.posts[i]).categories # <<>>}) >= 2

(***************************************************************************)
(* C4: when the post being normalised references a category id (or tag     *)
(* id) absent from the fully populated cache, the run aborts at that       *)
(* lookup: the post is not written, no file or directory changes then or   *)
(* later in the run, so the files of the earlier posts stay as written.    *)
(***************************************************************************)
\* The lookup about to happen fails: stage ep of enhance_post, its cache
\* populated, an id of the post not in it.
DanglingReference(ep) ==
    /\ pc = ep
    /\ cache[ep].populated
    /\ \E k \in DOMAIN data[ep] : data[ep][k] \notin DOMAIN cache[ep].dict

C4_AbortStep ==
    (\E ep \in VOCABULARIES : DanglingReference(ep)) =>
        /\ pc' = "aborted"
        /\ files' = files /\ dirs' = dirs /\ written' = written

C4_AbortedWritesNothing ==
    pc = "aborted" => (files' = files /\ dirs' = dirs)

\* C4: a lookup of an id absent from the populated cache aborts the run
\* with nothing written for that post or any later one, earlier files kept.
C4_MissingIdAbortsBeforeWrite ==
    [][C4_AbortStep]_vars /\ [][C4_AbortedWritesNothing]_vars

\* A run aborted on a dangling reference after it wrote an earlier post,
\* with a later post upstream that it never pulled.
C4_Witness ==
    /\ pc = "aborted"
    /\ Len(written) >= 1
    /\ Len(yielded.posts) < Len(wp.posts.listing)
    /\ \A i \in DOMAIN written : written[i].id # data.id

(***************************************************************************)
(* C5: posts are written in source order, each once: at every point of a   *)
(* run, also after an abort, the posts written so far are a prefix of the  *)
(* sequence of posts the posts endpoint serves page by page, and a run     *)
(* that ended normally has written exactly that sequence.                  *)
(***************************************************************************)
\* The ids of the posts written this run, in order of writing.
WrittenIds == [i \in DOMAIN written |-> written[i].id]

\* The posts the endpoint serves up to its ending page (up to the model's
\* last page when it never ends).
SourcePosts ==
    ElementsUpTo(wp.posts,
                 IF Ending(wp.posts) THEN EndPage(wp.posts) - 1 ELSE MaxPage)

\* Bodies agrees with what the site answers, page by page.
BodiesAreResponses ==
    \A ep \in ENDPOINTS : \A p \in 1..(MaxPage + 1) :
        Resp(wp[ep], p) = Bodies(wp[ep])[Min(p, Len(Bodies(wp[ep])))]

C5_WrittenIsPrefixOfSource ==
    LET source == SourcePosts
    IN  /\ Len(written) <= Len(source)
        /\ \A i \in DOMAIN written : written[i].id = source[i]
        /\ pc = "done" => Len(written) = Len(source)

\* A run aborted at its third post with two posts written.
C5_Witness ==
    /\ pc = "aborted"
    /\ Len(written) = 2
    /\ Len(SourcePosts) = 3

(***************************************************************************)
(* C6: a fetch finishes exactly when the site answers some page with an    *)
(* empty or non-list body: a finished fetch has made N+1 requests where    *)
(* page N+1 is the first such page, and never more than that before; a     *)
(* vocabulary fetch from a site with such a page does finish; a fetch from *)
(* a site answering every page with a non-empty list never finishes and    *)
(* goes on to ever higher pages (here: up to the last page of the model).  *)
(***************************************************************************)
C6_FinishedAtEndPage ==
    \A ep \in ENDPOINTS :
        /\ Fetched(ep) =>
              (Ending(wp[ep]) /\ Len(PagesRequested(ep)) = EndPage(wp[ep]))
        /\ Ending(wp[ep]) => Len(PagesRequested(ep)) <= EndPage(wp[ep])

C6_EndingFetchFinishes ==
    \A ep \in VOCABULARIES :
        (cache[ep].fetch.started /\ Ending(wp[ep])) ~> cache[ep].populated

C6_EndlessFetchGoesOn ==
    \A ep \in VOCABULARIES :
        (cache[ep].fetch.started /\ ~Ending(wp[ep]))
            ~> (cache[ep].fetch.page = MaxPage /\ ~cache[ep].populated)

\* The run is in a vocabulary fetch that never ends.
InEndlessVocabularyFetch ==
    \E ep \in VOCABULARIES : pc = ep /\ ~Ending(wp[ep]) /\ cache[ep].fetch.started

\* The fetch of posts, which the loop of __main__ consumes: it finishes
\* when the site ends and goes on when it does not, unless the loop is
\* left by an exception or stuck in a vocabulary fetch that never ends.
C6_PostsFetch ==
    gen.started ~>
        \/ IF Ending(wp.posts) THEN pc = "done"
           ELSE gen.page = MaxPage /\ pc # "done"
        \/ pc = "aborted"
        \/ InEndlessVocabularyFetch

\* C6: a fetch finishes, after N+1 requests, exactly when the site has a
\* first page N+1 that is empty or not a list; otherwise it goes on.
C6_TerminatesIffSiteEnds ==
    /\ []C6_FinishedAtEndPage
    /\ C6_EndingFetchFinishes
    /\ C6_EndlessFetchGoesOn
    /\ C6_PostsFetch

\* A category fetch that finished after three requests.
C6_Witness ==
    /\ cache.categories.populated
    /\ Len(PagesRequested("categories")) = 3

(***************************************************************************)
(* C7: a post whose slug was already written (by an earlier post of the    *)
(* run, or by an earlier migration) raises nothing: add_post replaces the  *)
(* file and the run goes on.  After a run that ended normally the file of  *)
(* every slug holds the rendered body of the last post, in source order,   *)
(* with that slug.                                                         *)
(***************************************************************************)
\* The last position of the sequence of post ids whose post has the slug
\* of the post at position k.
LastWithSlugOf(ids, k) ==
    CHOOSE j \in DOMAIN ids :
        /\ RawPost(ids[j]).slug = RawPost(ids[k]).slug
        /\ \A l \in DOMAIN ids : RawPost(ids[l]).slug = RawPost(ids[k]).slug => l <= j

C7_FilesHoldLastPost ==
    pc = "done" =>
        LET source == SourcePosts
        IN  /\ Len(written) = Len(source)
            /\ \A k \in DOMAIN source :
                  LET last == LastWithSlugOf(source, k)
                      raw == RawPost(source[last])
                      path == IndexPath(RawPost(source[k]).slug)
                  IN  /\ path \in DOMAIN files
                      /\ written[last].id = raw.id
                      /\ files[path] = written[last].text
                      /\ files[path][1].slug = raw.slug
                      /\ files[path][1].title = Unescape(raw.title.rendered)
                      /\ files[path][3] = Unescape(raw.content.rendered)

C7_WriteReplaces ==
    pc = "add_post" =>
        /\ pc' = "next"
        /\ IndexPath(post.slug) \in DOMAIN files'
        /\ files'[IndexPath(post.slug)] = Md(post)

\* C7: posts sharing a slug raise nothing, each write replaces the file,
\* and after the run the file holds the last such post in source order.
C7_DuplicateSlugLastWins == []C7_FilesHoldLastPost /\ [][C7_WriteReplaces]_vars

\* A finished second run that wrote two posts of different bodies to the
\* same path, where the first run had left a file.
C7_Witness ==
    /\ pc = "done"
    /\ run = 2
    /\ \E i, j \in DOMAIN written :
          /\ i < j
          /\ written[i].path = written[j].path
          /\ written[i].text # written[j].text
          /\ written[i].path \in DOMAIN first.files

(***************************************************************************)
(* C8 as stated: a second run against the same output directory and an     *)
(* unchanged upstream leaves the directory as the first run left it; and   *)
(* when a post was deleted upstream between two runs that both ended       *)
(* normally, the output after the second run differs from the output of a  *)
(* fresh run against the new upstream.                                     *)
(***************************************************************************)
\* The second run has ended, as the first did.
SecondRunEnded == run = 2 /\ pc \in {"done", "aborted"}

C8_RerunIsStable ==
    (SecondRunEnded /\ deleted = 0) =>
        (pc = first.pc /\ files = first.files /\ dirs = first.dirs)

C8_NothingRemoved ==
    run = 2 =>
        /\ DOMAIN first.files \subseteq DOMAIN files
        /\ first.dirs \subseteq dirs

\* Both runs ended normally and a post was deleted upstream in between.
DeletedBetweenRuns == run = 2 /\ pc = "done" /\ first.pc = "done" /\ deleted # 0

\* C8 as stated: a rerun on an unchanged upstream is stable, and after a
\* deletion upstream the output always differs from a fresh run's.
C8_Original ==
    /\ C8_RerunIsStable
    /\ C8_NothingRemoved
    /\ DeletedBetweenRuns => files # fresh

(***************************************************************************)
(* C8 as amended: a second run against an unchanged upstream leaves the    *)
(* output directory as the first run left it; a second run removes no file *)
(* of the first; and when a post was deleted upstream between two runs     *)
(* that both ended normally, its file is still there with the body the     *)
(* first run left, and the output differs from that of a fresh run against *)
(* the new upstream provided no remaining post has the deleted post's slug *)
(* (a remaining post with that slug overwrites the file, and the two       *)
(* outputs can then coincide).                                             *)
(***************************************************************************)
\* No post written by this run has the slug of the deleted post.
SlugGone == \A i \in DOMAIN written : written[i].path # IndexPath(RawPost(deleted).slug)

\* C8 as amended: a rerun on an unchanged upstream is stable, removes no
\* file, and after a deletion upstream the output differs from a fresh
\* run's when no remaining post has the deleted post's slug.
C8_StableButNotReconciled ==
    /\ C8_RerunIsStable
    /\ C8_NothingRemoved
    /\ (DeletedBetweenRuns /\ SlugGone) =>
          /\ IndexPath(RawPost(deleted).slug) \in DOMAIN files
          /\ IndexPath(RawPost(deleted).slug) \notin DOMAIN fresh
          /\ files[IndexPath(RawPost(deleted).slug)]
                = first.files[IndexPath(RawPost(deleted).slug)]
          /\ files # fresh

\* A finished second run after a post of a slug of its own was deleted,
\* the first run having started from an empty directory and written three
\* posts.
C8_Witness ==
    /\ DeletedBetweenRuns
    /\ SlugGone
    /\ Len(written) = 2
    /\ Cardinality(DOMAIN files) = Cardinality(DOMAIN fresh) + 1

(***************************************************************************)
(* C9: for a post whose category and tag ids are all in the caches, the    *)
(* Post built has categories equal to the names of its category ids and    *)
(* tags equal to the names of its tag ids, element for element: same       *)
(* length, same order, repeated ids kept, no ids no names.                 *)
(***************************************************************************)
C9_NamesFollowIds ==
    pc = "add_post" =>
        /\ Len(post.categories) = Len(data.categories)
        /\ \A k \in DOMAIN data.categories :
              post.categories[k] = CategoryRecord(data.categories[k]).name
        /\ Len(post.tags) = Len(data.tags)
        /\ \A k \in DOMAIN data.tags :
              post.tags[k] = TagRecord(data.tags[k]).name

\* The Post of a raw post that repeats a category id and has a tag, built
\* from a category cache filled from two pages.
C9_Witness ==
    /\ pc = "add_post"
    /\ data.categories = <<2, 1, 2>>
    /\ post.categories = <<"Events", "News", "Events">>
    /\ post.tags = <<"python">>
    /\ Len(PagesRequested("categories")) = 3

(***************************************************************************)
(* C10: fetching, normalising and writing interleave lazily.  The first    *)
(* request of a run goes to the posts endpoint; as long as no post pulled  *)
(* references a category (a tag), the categories (tags) endpoint is not    *)
(* requested; and a page of posts is requested only when every post of     *)
(* the pages before it has been normalised and written.                    *)
(***************************************************************************)
\* Some post pulled so far has an id in field ep.
Referenced(ep) ==
    \E i \in DOMAIN yielded.posts : RawPost(yielded.posts[i])[ep] # <<>>

C10_VocabularyOnDemand ==
    /\ requests # <<>> => requests[1].url = Url("posts")
    /\ \A ep \in VOCABULARIES : ~Referenced(ep) => PagesRequested(ep) = <<>>

C10_PageAfterWrites ==
    (Len(PagesRequested("posts")') > Len(PagesRequested("posts"))) =>
        LET before == ElementsUpTo(wp.posts, Len(PagesRequested("posts")))
        IN  /\ WrittenIds = before
            /\ yielded.posts = before
            /\ pc = "next"

\* C10: posts first, vocabularies only on demand, and the next page of
\* posts only after every post of the earlier pages is written.
C10_LazyInterleaving == []C10_VocabularyOnDemand /\ [][C10_PageAfterWrites]_vars

\* A finished run of three requests for posts that requested categories
\* and never requested tags.
C10_Witness ==
    /\ pc = "done"
    /\ Len(PagesRequested("posts")) = 3
    /\ PagesRequested("categories") # <<>>
    /\ PagesRequested("tags") = <<>>
    /\ Len(written) = 2

====
